---- MODULE Spec2Model ----
(***************************************************************************)
(* A model of the GIP CE/SE bind generator (gip_cese_bind.py) and of the   *)
(* helpers of gip_common.py it rests on.                                   *)
(*                                                                         *)
(* Python strings are sequences of one-character strings, so that          *)
(* startswith, find, split, strip and lower are computed character by      *)
(* character.  Python values of mixed type (a default may be None, a bool, *)
(* an int, a string or a list) are records with a type tag.                *)
(***************************************************************************)
EXTENDS Integers, Sequences, FiniteSets, TLC

----------------------------------------------------------------------------
(* Python string primitives *)

UpperChars == <<"A","B","C","D","E","F","G","H","I","J","K","L","M",
                "N","O","P","Q","R","S","T","U","V","W","X","Y","Z">>

LowerChars == <<"a","b","c","d","e","f","g","h","i","j","k","l","m",
                "n","o","p","q","r","s","t","u","v","w","x","y","z">>

DigitChars == <<"0","1","2","3","4","5","6","7","8","9">>

WhiteChars == {" ", "\t", "\n", "\r"}

\* str.lower() on one character
LowerChar(c) ==
    LET up == {i \in 1..Len(UpperChars) : UpperChars[i] = c}
    IN  IF up = {} THEN c ELSE LowerChars[CHOOSE i \in up : TRUE]

\* str.lower()
Lower(s) == [i \in 1..Len(s) |-> LowerChar(s[i])]

\* str.startswith(p)
StartsWith(s, p) == Len(p) <= Len(s) /\ SubSeq(s, 1, Len(p)) = p

\* does sub occur in s at (1-based) position i
OccursAt(s, sub, i) ==
    i >= 1 /\ i + Len(sub) - 1 <= Len(s) /\ SubSeq(s, i, i + Len(sub) - 1) = sub

\* str.find(sub): the 0-based index of the first occurrence, -1 when there is none
RECURSIVE FindFrom(_, _, _)
FindFrom(s, sub, i) ==
    IF i + Len(sub) - 1 > Len(s) THEN -1
    ELSE IF OccursAt(s, sub, i) THEN i - 1
    ELSE FindFrom(s, sub, i + 1)

Find(s, sub) == FindFrom(s, sub, 1)

\* s[n:]
DropFirst(s, n) == IF n >= Len(s) THEN <<>> ELSE SubSeq(s, n + 1, Len(s))

RECURSIVE LStrip(_)
LStrip(s) == IF s # <<>> /\ s[1] \in WhiteChars THEN LStrip(Tail(s)) ELSE s

RECURSIVE RStrip(_)
RStrip(s) ==
    IF s # <<>> /\ s[Len(s)] \in WhiteChars
    THEN RStrip(SubSeq(s, 1, Len(s) - 1))
    ELSE s

\* str.strip()
Strip(s) == RStrip(LStrip(s))

\* str.split(sep) for a non-empty separator: the pieces between the
\* non-overlapping occurrences of sep, scanned left to right
RECURSIVE Split(_, _)
Split(s, sep) ==
    LET k == Find(s, sep)
    IN  IF k < 0
        THEN <<s>>
        ELSE <<SubSeq(s, 1, k)>> \o Split(DropFirst(s, k + Len(sep)), sep)

\* str.count(sub) for a non-empty sub
RECURSIVE Count(_, _)
Count(s, sub) ==
    LET k == Find(s, sub)
    IN  IF k < 0 THEN 0 ELSE 1 + Count(DropFirst(s, k + Len(sub)), sub)

IsDigit(c) == \E i \in 1..Len(DigitChars) : DigitChars[i] = c

DigitVal(c) == (CHOOSE i \in 1..Len(DigitChars) : DigitChars[i] = c) - 1

\* the value of a non-empty string of decimal digits
RECURSIVE DigitsVal(_)
DigitsVal(s) ==
    IF s = <<>> THEN 0
    ELSE DigitsVal(SubSeq(s, 1, Len(s) - 1)) * 10 + DigitVal(s[Len(s)])

\* '%d' % n for n >= 0
RECURSIVE NatToStr(_)
NatToStr(n) ==
    IF n < 10 THEN <<DigitChars[n + 1]>>
    ELSE NatToStr(n \div 10) \o <<DigitChars[(n % 10) + 1]>>

\* '%d' % n
IntToStr(n) == IF n < 0 THEN <<"-">> \o NatToStr(0 - n) ELSE NatToStr(n)

\* sep.join(list)
RECURSIVE Join(_, _)
Join(sep, l) ==
    IF l = <<>> THEN <<>>
    ELSE IF Len(l) = 1 THEN l[1]
    ELSE l[1] \o sep \o Join(sep, Tail(l))

----------------------------------------------------------------------------
(* Python values *)

PyStr(s)  == [t |-> "str",  s |-> s,    n |-> 0, l |-> <<>>]
PyInt(n)  == [t |-> "int",  s |-> <<>>, n |-> n, l |-> <<>>]
PyBool(b) == [t |-> "bool", s |-> <<>>, n |-> IF b THEN 1 ELSE 0, l |-> <<>>]
PyNone    == [t |-> "none", s |-> <<>>, n |-> 0, l |-> <<>>]
PyList(l) == [t |-> "list", s |-> <<>>, n |-> 0, l |-> l]

PyTrue  == PyBool(TRUE)
PyFalse == PyBool(FALSE)

\* the normal return of v, and the raise of exception e
Ret(v)   == [exc |-> "none", val |-> v]
Raise(e) == [exc |-> e, val |-> PyNone]

\* repr of a list of strings: ['a', 'b']
RECURSIVE ReprItems(_)
ReprItems(l) ==
    IF l = <<>> THEN <<>>
    ELSE <<"'">> \o l[1] \o <<"'">>
         \o (IF Len(l) > 1 THEN <<",", " ">> ELSE <<>>) \o ReprItems(Tail(l))

\* str(v)
PyToStr(v) ==
    CASE v.t = "str"  -> v.s
      [] v.t = "int"  -> IntToStr(v.n)
      [] v.t = "bool" -> IF v.n = 1 THEN <<"T","r","u","e">> ELSE <<"F","a","l","s","e">>
      [] v.t = "none" -> <<"N","o","n","e">>
      [] OTHER        -> <<"[">> \o ReprItems(v.l) \o <<"]">>

\* bool(v): the truth value of v in an if
Truthy(v) ==
    CASE v.t = "str"  -> v.s # <<>>
      [] v.t = "int"  -> v.n # 0
      [] v.t = "bool" -> v.n = 1
      [] v.t = "none" -> FALSE
      [] OTHER        -> v.l # <<>>

\* int(s) for a string: optional surrounding whitespace, optional sign, digits
ParseInt(s) ==
    LET b == Strip(s)
        body == IF b # <<>> /\ b[1] \in {"+", "-"} THEN Tail(b) ELSE b
        ok == body # <<>> /\ \A i \in 1..Len(body) : IsDigit(body[i])
    IN  IF ok
        THEN Ret(PyInt(IF b[1] = "-" THEN 0 - DigitsVal(body) ELSE DigitsVal(body)))
        ELSE Raise("ValueError")

----------------------------------------------------------------------------
(* String literals of the program *)

ce       == <<"c","e">>
se       == <<"s","e">>
cesebind == <<"c","e","s","e","b","i","n","d">>

S_cream      == <<"c","r","e","a","m">>
S_htcondorce == <<"h","t","c","o","n","d","o","r","c","e">>
S_jobmanager == <<"j","o","b","m","a","n","a","g","e","r">>
S_pbs        == <<"p","b","s">>
S_lsf        == <<"l","s","f">>
S_condor     == <<"c","o","n","d","o","r">>
S_slurm      == <<"s","l","u","r","m">>
S_sge        == <<"s","g","e">>
S_classic_se == <<"c","l","a","s","s","i","c","_","s","e">>
S_site       == <<"s","i","t","e">>
S_osg_dirs   == <<"o","s","g","_","d","i","r","s">>
S_UNKNOWN    == <<"U","N","K","N","O","W","N">>
S_classicSE  == <<"_","c","l","a","s","s","i","c","S","E">>
S_slash      == <<"/">>
S_dot        == <<".">>
S_MountInfo  == <<"\n","G","l","u","e","C","E","S","E","B","i","n","d",
                  "M","o","u","n","t","I","n","f","o",":"," ">>

----------------------------------------------------------------------------
(* The configuration object.  A ConfigParser is a sequence of sections, in *)
(* the order cp.sections() yields them; a section is a name and a function *)
(* from the names of its options to their string values.                   *)

HasSection(cp, section) == \E i \in 1..Len(cp) : cp[i].name = section

SectionOpts(cp, section) ==
    cp[CHOOSE i \in 1..Len(cp) : cp[i].name = section].opts

HasOption(cp, section, option) ==
    HasSection(cp, section) /\ option \in DOMAIN SectionOpts(cp, section)

\* cp.sections()
Sections(cp) == [i \in 1..Len(cp) |-> cp[i].name]

\* cp.get(section, option) of ConfigParser
CpGet(cp, section, option) ==
    IF ~HasSection(cp, section) THEN Raise("NoSectionError")
    ELSE IF option \notin DOMAIN SectionOpts(cp, section) THEN Raise("NoOptionError")
    ELSE Ret(PyStr(SectionOpts(cp, section)[option]))

BooleanTrueWords ==
    { <<"1">>, <<"y","e","s">>, <<"t","r","u","e">>, <<"o","n">> }

BooleanFalseWords ==
    { <<"0">>, <<"n","o">>, <<"f","a","l","s","e">>, <<"o","f","f">> }

\* cp.getboolean(section, option) of ConfigParser
CpGetboolean(cp, section, option) ==
    LET r == CpGet(cp, section, option)
    IN  IF r.exc # "none" THEN r
        ELSE IF Lower(r.val.s) \in BooleanTrueWords THEN Ret(PyTrue)
        ELSE IF Lower(r.val.s) \in BooleanFalseWords THEN Ret(PyFalse)
        ELSE Raise("ValueError")

cp_get(cp, section, option, default) ==
    IF section = <<>> \/ option = "" THEN Ret(default)
    ELSE LET r == CpGet(cp, section, option)
         IN  IF r.exc \in {"NoSectionError", "NoOptionError"} THEN Ret(default) ELSE r

cp_getBoolean(cp, section, option, default) ==
    LET val == Lower(PyToStr(cp_get(cp, section, option, default).val))
    IN  IF Find(val, <<"t">>) >= 0 \/ Find(val, <<"y">>) >= 0 \/ Find(val, <<"1">>) >= 0
        THEN Ret(PyTrue)
        ELSE IF Find(val, <<"f">>) >= 0 \/ Find(val, <<"n">>) >= 0 \/ Find(val, <<"0">>) >= 0
        THEN Ret(PyFalse)
        ELSE Ret(default)

cp_getInt(cp, section, option, default) ==
    LET r == ParseInt(Strip(PyToStr(cp_get(cp, section, option, default).val)))
    IN  IF r.exc # "none" THEN Ret(default) ELSE r

\* the length of the match of \s*,?\s* at (1-based) position i of s
RECURSIVE WhiteRun(_, _)
WhiteRun(s, i) ==
    IF i <= Len(s) /\ s[i] \in WhiteChars THEN 1 + WhiteRun(s, i + 1) ELSE 0

SplitReMatch(s, i) ==
    LET w1 == WhiteRun(s, i)
        c  == IF i + w1 <= Len(s) /\ s[i + w1] = "," THEN 1 ELSE 0
        w2 == IF c = 1 THEN WhiteRun(s, i + w1 + 1) ELSE 0
    IN  w1 + c + w2

\* split_re.split(s): the scan of re.split, which steps over an empty match
RECURSIVE SplitReFrom(_, _, _)
SplitReFrom(s, i, start) ==
    IF i > Len(s) THEN <<SubSeq(s, start, Len(s))>>
    ELSE LET m == SplitReMatch(s, i)
         IN  IF m = 0 THEN SplitReFrom(s, i + 1, start)
             ELSE <<SubSeq(s, start, i - 1)>> \o SplitReFrom(s, i + m, i + m)

split_re_split(s) == SplitReFrom(s, 1, 1)

cp_getList(cp, section, option, default) ==
    LET results == cp_get(cp, section, option, default).val
    IN  IF results.t = "str" THEN Ret(PyList(split_re_split(results.s)))
        ELSE Ret(results)

----------------------------------------------------------------------------
(* gip_common: FQANs *)

S_VOMS    == <<"V","O","M","S",":">>
S_VO      == <<"V","O",":">>
S_Role    == <<"R","o","l","e","=">>
S_SlashRole == <<"/","R","o","l","e","=">>
S_AnyRole == <<"/","R","o","l","e","=","*">>
S_Star    == <<"*">>

\* normalizeFQAN with the two prefixes tried in the other order
normalizeFQANVOFirst(fqan) ==
    LET f1 == IF StartsWith(fqan, S_VO) THEN DropFirst(fqan, 3) ELSE fqan
        f2 == IF StartsWith(f1, S_VOMS) THEN DropFirst(f1, 5) ELSE f1
        f3 == IF ~StartsWith(f2, S_slash) THEN S_slash \o f2 ELSE f2
    IN  IF Find(f3, S_Role) < 0 THEN f3 \o S_AnyRole ELSE f3

normalizeFQAN(fqan) ==
    LET f1 == IF StartsWith(fqan, S_VOMS) THEN DropFirst(fqan, 5) ELSE fqan
        f2 == IF StartsWith(f1, S_VO) THEN DropFirst(f1, 3) ELSE f1
        f3 == IF ~StartsWith(f2, S_slash) THEN S_slash \o f2 ELSE f2
    IN  IF Find(f3, S_Role) < 0 THEN f3 \o S_AnyRole ELSE f3

\* matchFQAN with the group test the wrong way round
matchFQANGroupReversed(fqan1, fqan2) ==
    LET p1 == Split(normalizeFQAN(fqan1), S_SlashRole)
        p2 == Split(normalizeFQAN(fqan2), S_SlashRole)
    IN  IF Len(p1) # 2 \/ Len(p2) # 2 THEN Raise("ValueError")
        ELSE Ret(PyBool(StartsWith(p2[1], p1[1]) /\ (p2[2] = S_Star \/ p2[2] = p1[2])))

\* matchFQAN(fqan1, fqan2); unpacking a split that has not two pieces raises
matchFQAN(fqan1, fqan2) ==
    LET p1 == Split(normalizeFQAN(fqan1), S_SlashRole)
        p2 == Split(normalizeFQAN(fqan2), S_SlashRole)
        vor_matches == p2[2] = S_Star \/ p2[2] = p1[2]
        vog_matches == StartsWith(p1[1], p2[1])
    IN  IF Len(p1) # 2 \/ Len(p2) # 2 THEN Raise("ValueError")
        ELSE Ret(PyBool(vog_matches /\ vor_matches))

----------------------------------------------------------------------------
(* gip_common: the HTCondor-CE port and the PATH *)

DefaultGramPort  == 2119
CreamPort        == 8443
DefaultCondorCEPort == 9619

\* re.search(r':(\d+)$', s), or r'\]:(\d+)$' when bracketed: the digits after
\* the last colon, when there are some and nothing else follows
TrailingPort(s, bracketed) ==
    LET colons == {i \in 1..Len(s) : s[i] = ":"}
        last == CHOOSE i \in colons : \A j \in colons : j <= i
        digits == SubSeq(s, last + 1, Len(s))
    IN  IF colons = {} THEN Raise("NoMatch")
        ELSE IF digits = <<>> \/ \E i \in 1..Len(digits) : ~IsDigit(digits[i])
        THEN Raise("NoMatch")
        ELSE IF bracketed /\ (last = 1 \/ s[last - 1] # "]") THEN Raise("NoMatch")
        ELSE Ret(PyInt(DigitsVal(digits)))

\* what running condor_ce_config_val -expand <variable> comes to: Popen raises
\* OSError, or the process exits with a return code and an output
LaunchFails == [launched |-> FALSE, returncode |-> 0, output |-> <<>>]
Exits(returncode, output) ==
    [launched |-> TRUE, returncode |-> returncode, output |-> output]

\* getCondorCEConfigVal that does not look at the return code
getCondorCEConfigValAnyExit(condor, variable) ==
    LET process == condor[variable]
    IN  IF ~process.launched THEN PyNone
        ELSE PyStr(Strip(process.output))

\* getCondorCEConfigVal(variable): None when the process could not be launched
\* or exited nonzero, its stripped output otherwise
getCondorCEConfigVal(condor, variable) ==
    LET process == condor[variable]
    IN  IF ~process.launched THEN PyNone
        ELSE IF process.returncode # 0 THEN PyNone
        ELSE PyStr(Strip(process.output))

\* int(v) of a value that may be None
PyIntOf(v) ==
    IF v.t = "none" THEN Raise("TypeError")
    ELSE IF v.t = "str" THEN ParseInt(v.s)
    ELSE Ret(v)

\* getHTCondorCEPort(): the port, and the subprocesses it ran
getHTCondorCEPort(condor) ==
    LET collector_host == getCondorCEConfigVal(condor, "COLLECTOR_HOST")
        match == IF Truthy(collector_host)
                 THEN TrailingPort(collector_host.s, Count(collector_host.s, <<":">>) > 1)
                 ELSE Raise("NoMatch")
        port == PyIntOf(getCondorCEConfigVal(condor, "COLLECTOR_PORT"))
    IN  IF match.exc = "none"
        THEN [port |-> match.val.n, calls |-> <<"condor_ce_config_val">>]
        ELSE [port |-> IF port.exc = "none" THEN port.val.n ELSE DefaultCondorCEPort,
              calls |-> <<"condor_ce_config_val", "condor_ce_config_val">>]

\* the list without the second and later occurrences of an element
RECURSIVE Unique(_)
Unique(l) ==
    IF l = <<>> THEN <<>>
    ELSE LET front == Unique(SubSeq(l, 1, Len(l) - 1))
             e == l[Len(l)]
         IN  IF \E i \in 1..Len(front) : front[i] = e THEN front ELSE Append(front, e)

\* addToPath that leaves the duplicates in
addToPathNoDedup(new_element, path) ==
    PyToStr(new_element) \o <<":">> \o PyToStr(path)

\* addToPath(new_element): the new value of os.environ["PATH"]
addToPath(new_element, path) ==
    Join(<<":">>, Unique(Split(PyToStr(new_element) \o <<":">> \o PyToStr(path), <<":">>)))

----------------------------------------------------------------------------
(* gip_cese_bind *)

\* CEName with the prefix and the job manager given to the template in the
\* wrong order
CENameSwapped(hostname, port, prefix, jobman, queue) ==
    hostname \o <<":">> \o IntToStr(port) \o <<"/">> \o jobman \o <<"-">>
        \o prefix \o <<"-">> \o queue

\* the CE name template filled in: '%s:%d/%s-%s-%%s' % (...) % queue
CEName(hostname, port, prefix, jobman, queue) ==
    hostname \o <<":">> \o IntToStr(port) \o <<"/">> \o prefix \o <<"-">>
        \o jobman \o <<"-">> \o queue

\* CrossCE with the two loops exchanged: for ce_name in ce_names: for queue
RECURSIVE CrossCEHostMajor(_, _, _, _, _)
CrossCEHostMajor(queue_entries, hostnames, port, prefix, jobman) ==
    IF hostnames = <<>> THEN <<>>
    ELSE [i \in 1..Len(queue_entries) |->
              CEName(hostnames[1], port, prefix, jobman, queue_entries[i])]
         \o CrossCEHostMajor(queue_entries, Tail(hostnames), port, prefix, jobman)

\* for queue in queue_entries: for ce_name in ce_names: append
RECURSIVE CrossCE(_, _, _, _, _)
CrossCE(queue_entries, hostnames, port, prefix, jobman) ==
    IF queue_entries = <<>> THEN <<>>
    ELSE [i \in 1..Len(hostnames) |->
              CEName(hostnames[i], port, prefix, jobman, queue_entries[1])]
         \o CrossCE(Tail(queue_entries), hostnames, port, prefix, jobman)

\* Dispatch with an unknown job manager treated as PBS instead of rejected
DispatchDefaultsToPBS(jobman) ==
    CASE jobman = S_lsf    -> <<"bootstrapLSF", "getLSFQueueList">>
      [] jobman = S_condor -> <<"getCondorQueueList">>
      [] jobman = S_slurm  -> <<"getSlurmQueueList">>
      [] jobman = S_sge    -> <<"bootstrapSGE", "addToPath", "getSGEQueueList">>
      [] OTHER             -> <<"getPBSQueueList">>

\* Dispatch with the SGE queues listed before the SGE environment is set up
DispatchSGEListsFirst(jobman) ==
    CASE jobman = S_pbs    -> <<"getPBSQueueList">>
      [] jobman = S_lsf    -> <<"bootstrapLSF", "getLSFQueueList">>
      [] jobman = S_condor -> <<"getCondorQueueList">>
      [] jobman = S_slurm  -> <<"getSlurmQueueList">>
      [] jobman = S_sge    -> <<"getSGEQueueList", "bootstrapSGE", "addToPath">>
      [] OTHER             -> <<>>

\* the branch of the job manager dispatch: what runs, in order
Dispatch(jobman) ==
    CASE jobman = S_pbs    -> <<"getPBSQueueList">>
      [] jobman = S_lsf    -> <<"bootstrapLSF", "getLSFQueueList">>
      [] jobman = S_condor -> <<"getCondorQueueList">>
      [] jobman = S_slurm  -> <<"getSlurmQueueList">>
      [] jobman = S_sge    -> <<"bootstrapSGE", "addToPath", "getSGEQueueList">>
      [] OTHER             -> <<>>

\* getCEList(cp, extraCEs) in environment e with PATH path: the exception or
\* the list, the external calls made in order, and the PATH it leaves
getCEList(cp, extraCEs, e, path) ==
    LET jm == CpGet(cp, ce, "job_manager")
        nm == CpGet(cp, ce, "name")
        jobman == Lower(Strip(jm.val.s))
        hostnames == <<nm.val.s>> \o extraCEs
        cream == cp_getBoolean(cp, S_cream, "enabled", PyFalse).val
        htc == cp_getBoolean(cp, S_htcondorce, "enabled", PyFalse).val
        resolved == getHTCondorCEPort(e.condor)
        prefix == IF Truthy(htc) THEN S_htcondorce
                  ELSE IF Truthy(cream) THEN S_cream ELSE S_jobmanager
        port == IF Truthy(htc) THEN resolved.port
                ELSE IF Truthy(cream) THEN CreamPort ELSE DefaultGramPort
        early == IF Truthy(htc) THEN resolved.calls ELSE <<>>
        steps == Dispatch(jobman)
    IN  IF jm.exc # "none"
        THEN [exc |-> jm.exc, val |-> <<>>, calls |-> <<>>, path |-> path]
        ELSE IF nm.exc # "none"
        THEN [exc |-> nm.exc, val |-> <<>>, calls |-> <<>>, path |-> path]
        ELSE IF steps = <<>>
        THEN [exc |-> "ValueError", val |-> <<>>, calls |-> early, path |-> path]
        ELSE [exc |-> "none",
              val |-> CrossCE(e.queues, hostnames, port, prefix, jobman),
              calls |-> early \o steps,
              path |-> IF jobman = S_sge
                       THEN PyStr(addToPath(cp_get(cp, S_sge, "sge_path", PyStr(S_dot)).val, path))
                       ELSE path]

getClassicSEList(cp) ==
    IF Truthy(cp_getBoolean(cp, S_classic_se, "advertise_se", PyTrue).val)
    THEN LET classicSE == cp_get(cp, S_classic_se, "unique_name", PyNone).val
             siteUniqueID == cp_get(cp, S_site, "unique_name", PyStr(S_UNKNOWN)).val
         IN  IF Truthy(classicSE) THEN <<classicSE.s>>
             ELSE <<siteUniqueID.s \o S_classicSE>>
    ELSE <<>>

\* the section filter of getSEList and getSESections: the sections it keeps
IsSESection(cp, sect) ==
    /\ StartsWith(Lower(sect), se)
    /\ Lower(sect) # se
    /\ Truthy(cp_getBoolean(cp, sect, "advertise_se", PyTrue).val)

\* the loop of simple mode over cp.sections()
RECURSIVE ScanSections(_, _)
ScanSections(cp, sects) ==
    IF sects = <<>> THEN <<>>
    ELSE LET sect == sects[1]
             u == CpGet(cp, sect, "unique_name")
         IN  (IF IsSESection(cp, sect) /\ u.exc = "none" THEN <<u.val.s>> ELSE <<>>)
             \o ScanSections(cp, Tail(sects))

\* simple mode's se_list before the classic SEs are added
SimpleSEList(cp) ==
    LET u == CpGet(cp, se, "unique_name")
    IN  (IF Truthy(cp_getBoolean(cp, se, "advertise_se", PyTrue).val) /\ u.exc = "none"
         THEN <<u.val.s>> ELSE <<>>)
        \o ScanSections(cp, Sections(cp))

\* the depth of calls at which the interpreter raises RuntimeError
RecursionLimit == 3

\* some list of the distinct elements of l: list(Set(l)) in one of its orders
SetList(l) ==
    LET elems == {l[i] : i \in 1..Len(l)}
    IN  CHOOSE q \in [1..Cardinality(elems) -> elems] : {q[i] : i \in DOMAIN q} = elems

\* every order list(Set(l)) can come out in
SetOrders(l) ==
    LET elems == {l[i] : i \in 1..Len(l)}
    IN  {q \in [1..Cardinality(elems) -> elems] : {q[i] : i \in DOMAIN q} = elems}

\* getSEList(cp, classicSEs) at call depth `depth`: the exception, or se_list
\* as it stands before list(Set(se_list)) of this frame
RECURSIVE getSEList(_, _, _)
getSEList(cp, classicSEs, depth) ==
    LET simple == CpGetboolean(cp, cesebind, "simple")
        listed == CpGet(cp, cesebind, "se_list")
        again == getSEList(cp, classicSEs, depth + 1)
        classic == IF classicSEs THEN getClassicSEList(cp) ELSE <<>>
    IN  IF depth > RecursionLimit THEN [exc |-> "RuntimeError", val |-> <<>>]
        ELSE IF simple.exc # "none" THEN [exc |-> simple.exc, val |-> <<>>]
        ELSE IF Truthy(simple.val)
        THEN [exc |-> "none", val |-> SimpleSEList(cp) \o classic]
        ELSE IF listed.exc = "none"
        THEN [exc |-> "none", val |-> split_re_split(listed.val.s) \o classic]
        ELSE IF again.exc # "none" THEN again
        ELSE [exc |-> "none", val |-> SetList(again.val) \o classic]

\* se_map[key] = sect of a dict held as a function
DictSet(m, key, value) ==
    [k \in (DOMAIN m) \cup {key} |-> IF k = key THEN value ELSE m[k]]

EmptyDict == [k \in {} |-> <<>>]

\* SESectionsFrom that keeps the first section that declares an SE
RECURSIVE SESectionsFirstWins(_, _, _)
SESectionsFirstWins(cp, sects, se_map) ==
    IF sects = <<>> THEN se_map
    ELSE LET sect == sects[1]
             u == CpGet(cp, sect, "unique_name")
         IN  SESectionsFirstWins(cp, Tail(sects),
                 IF IsSESection(cp, sect) /\ u.exc = "none" /\ u.val.s \notin DOMAIN se_map
                 THEN DictSet(se_map, u.val.s, sect) ELSE se_map)

RECURSIVE SESectionsFrom(_, _, _)
SESectionsFrom(cp, sects, se_map) ==
    IF sects = <<>> THEN se_map
    ELSE LET sect == sects[1]
             u == CpGet(cp, sect, "unique_name")
         IN  SESectionsFrom(cp, Tail(sects),
                 IF IsSESection(cp, sect) /\ u.exc = "none"
                 THEN DictSet(se_map, u.val.s, sect) ELSE se_map)

getSESections(cp) == SESectionsFrom(cp, Sections(cp), EmptyDict)

\* AccessPoint that tests the SE against the first classic SE's section name
\* rather than the classic SE list: every record gets the default path
AccessPointNeverClassic(myse, classicse_list, classic_access_point, access_point) ==
    access_point

\* the access point of a bind record
AccessPoint(myse, classicse_list, classic_access_point, access_point) ==
    IF \E i \in 1..Len(classicse_list) : classicse_list[i] = myse
    THEN classic_access_point ELSE access_point

\* the mount point looked up for an SE: None, or the section's option
MountPoint(cp, myse, section_map) ==
    IF myse \in DOMAIN section_map
    THEN cp_get(cp, section_map[myse], "mount_point", PyNone).val
    ELSE PyNone

\* one bind record
BindInfo(myce, myse, ap, mount_point) ==
    [ceUniqueID |-> myce, seUniqueID |-> myse, access_point |-> ap]
    @@ [mount_point |-> IF Truthy(mount_point) THEN S_MountInfo \o mount_point.s
                        ELSE <<>>]

\* BindLoop with the two loops exchanged: for myce in ce_list: for myse in se_list
RECURSIVE BindLoopCEMajor(_, _, _, _, _, _, _)
BindLoopCEMajor(cp, se_l, ce_l, classicse_list, section_map, classic_access_point, access_point) ==
    IF ce_l = <<>> THEN <<>>
    ELSE [i \in 1..Len(se_l) |->
             BindInfo(ce_l[1], se_l[i],
                      AccessPoint(se_l[i], classicse_list, classic_access_point,
                                  access_point),
                      MountPoint(cp, se_l[i], section_map))]
         \o BindLoopCEMajor(cp, se_l, Tail(ce_l), classicse_list, section_map,
                            classic_access_point, access_point)

\* for myse in se_list: for myce in ce_list: binds.append(info)
RECURSIVE BindLoop(_, _, _, _, _, _, _)
BindLoop(cp, se_l, ce_l, classicse_list, section_map, classic_access_point, access_point) ==
    IF se_l = <<>> THEN <<>>
    ELSE LET myse == se_l[1]
         IN  [j \in 1..Len(ce_l) |->
                 BindInfo(ce_l[j], myse,
                          AccessPoint(myse, classicse_list, classic_access_point, access_point),
                          MountPoint(cp, myse, section_map))]
             \o BindLoop(cp, Tail(se_l), ce_l, classicse_list, section_map,
                         classic_access_point, access_point)

\* access_point = getPath(cp), "/" when it is empty or None
DefaultAccessPoint(e) ==
    IF Truthy(e.storage_path) THEN e.storage_path.s ELSE S_slash

ClassicAccessPoint(cp) == cp_get(cp, S_osg_dirs, "data", PyStr(S_slash)).val.s

----------------------------------------------------------------------------
(* The configurations and environments the model starts from *)

ABSENT == <<"<absent>">>

V_True  == <<"T","r","u","e">>
V_False == <<"F","a","l","s","e">>
V_h     == <<"h">>
V_h2    == <<"h","2">>
V_s1    == <<"s","1">>
V_s2    == <<"s","2">>
V_m     == <<"/","m">>
V_d     == <<"/","d">>
V_st    == <<"/","s","t">>
V_bin   == <<"/","b","i","n">>
V_sgebin == <<"/","s","g","e">>

\* a section: the options whose value is not ABSENT
MkSection(name, options) ==
    [name |-> name,
     opts |-> [o \in {x \in DOMAIN options : options[x] # ABSENT} |-> options[o]]]

\* a configuration: the sections that have an option
MkConfig(sections) == SelectSeq(sections, LAMBDA s : DOMAIN s.opts # {})

MaxQueues == 2

QueueName(i) == <<"q">> \o NatToStr(i)

\* what the batch system's queue listing returns
QueueLists == {[i \in 1..k |-> QueueName(i)] : k \in 0..MaxQueues}

\* what condor_ce_config_val answers for COLLECTOR_HOST and COLLECTOR_PORT
CondorEnvs ==
    { [COLLECTOR_HOST |-> LaunchFails, COLLECTOR_PORT |-> LaunchFails],
      [COLLECTOR_HOST |-> Exits(0, <<"c",":","9","6","\n">>),
       COLLECTOR_PORT |-> Exits(1, <<>>)],
      [COLLECTOR_HOST |-> Exits(0, <<"c","\n">>),
       COLLECTOR_PORT |-> Exits(0, <<"9","7","\n">>)],
      [COLLECTOR_HOST |-> Exits(0, <<"[",":",":","1","]",":","9","8">>),
       COLLECTOR_PORT |-> Exits(0, <<"x">>)],
      [COLLECTOR_HOST |-> Exits(0, <<":",":","1">>), COLLECTOR_PORT |-> Exits(1, <<>>)] }

NoCondor == [COLLECTOR_HOST |-> LaunchFails, COLLECTOR_PORT |-> LaunchFails]

\* the options an SE section can come with: unique_name, advertise_se, mount_point
SEOptionChoices ==
    { [unique_name |-> V_s1, advertise_se |-> ABSENT,  mount_point |-> ABSENT],
      [unique_name |-> V_s1, advertise_se |-> ABSENT,  mount_point |-> V_m],
      [unique_name |-> V_s2, advertise_se |-> V_False, mount_point |-> V_m],
      [unique_name |-> V_s2, advertise_se |-> ABSENT,  mount_point |-> <<>>],
      [unique_name |-> ABSENT, advertise_se |-> ABSENT, mount_point |-> V_m] }

MaxSections == 2

\* the names the i-th additional section can have
SectionNames(i) ==
    CASE i = 1 -> { <<"s","e","_","a">>, <<"S","E">> }
      [] i = 2 -> { <<"S","e","b">> }
      [] OTHER -> { <<"s","e">> \o NatToStr(i) }

ExtraSections ==
    UNION { {[i \in 1..k |-> MkSection(f[i][1], f[i][2])] :
                 f \in {g \in [1..k -> (UNION {SectionNames(i) : i \in 1..k})
                                         \X SEOptionChoices] :
                           \A i \in 1..k : g[i][1] \in SectionNames(i)}} :
            k \in 0..MaxSections }

\* the [cesebind] section
BindChoices ==
    { [simple |-> V_True,  se_list |-> ABSENT],
      [simple |-> V_False, se_list |-> <<"s","1",","," ","s","2">>],
      [simple |-> V_False, se_list |-> <<"s","1"," ","s","1">>],
      [simple |-> V_False, se_list |-> ABSENT],
      [simple |-> ABSENT,  se_list |-> <<"s","1">>] }

\* the [classic_se] section
ClassicChoices ==
    { [advertise_se |-> ABSENT,  unique_name |-> ABSENT],
      [advertise_se |-> V_False, unique_name |-> ABSENT],
      [advertise_se |-> ABSENT,  unique_name |-> V_s1] }

JobManagers ==
    { ABSENT, S_pbs, <<" ","P","B","S"," ">>, S_lsf, S_condor, S_slurm, S_sge,
      <<"b","o","g","u","s">>, <<"p","b","s","2">> }

World(ceOpts, creamOn, htcOn, sgePath, bind, seOpts, extras, classic, data, storage, queues, condor, path) ==
    [cp |-> MkConfig(
                << MkSection(ce, ceOpts),
                   MkSection(S_cream, [enabled |-> creamOn]),
                   MkSection(S_htcondorce, [enabled |-> htcOn]),
                   MkSection(S_sge, [sge_path |-> sgePath]),
                   MkSection(cesebind, bind),
                   MkSection(se, seOpts) >>
                \o extras
                \o << MkSection(S_classic_se, classic),
                      MkSection(S_osg_dirs, [data |-> data]) >>),
     env |-> [queues |-> queues, condor |-> condor, storage_path |-> storage],
     path |-> path]

PlainCE == [job_manager |-> S_pbs, name |-> V_h]
PlainSE == [unique_name |-> V_s1, advertise_se |-> ABSENT, mount_point |-> ABSENT]
PlainBind == [simple |-> V_True, se_list |-> ABSENT]
PlainClassic == [advertise_se |-> ABSENT, unique_name |-> ABSENT]

\* configurations that differ in how the SE list is chosen and in their
\* additional SE sections
BindWorlds ==
    { World(PlainCE, ABSENT, ABSENT, ABSENT, b, PlainSE, x, PlainClassic, ABSENT,
            PyNone, <<QueueName(1)>>, NoCondor, PyStr(V_bin)) :
        b \in BindChoices, x \in ExtraSections }

\* the [se] and [classic_se] sections of the simple-mode configurations
SEClassicChoices ==
    { <<[unique_name |-> ABSENT, advertise_se |-> ABSENT, mount_point |-> ABSENT],
        [advertise_se |-> ABSENT, unique_name |-> ABSENT]>>,
      <<[unique_name |-> V_s2, advertise_se |-> ABSENT, mount_point |-> V_m],
        [advertise_se |-> V_False, unique_name |-> ABSENT]>>,
      <<[unique_name |-> V_s1, advertise_se |-> V_False, mount_point |-> ABSENT],
        [advertise_se |-> ABSENT, unique_name |-> V_s1]>>,
      <<[unique_name |-> V_s2, advertise_se |-> ABSENT, mount_point |-> V_m],
        [advertise_se |-> ABSENT, unique_name |-> V_s1]>> }

\* simple-mode configurations that differ in their SE sections
SEWorlds ==
    { World(PlainCE, ABSENT, ABSENT, ABSENT, PlainBind, sc[1], x, sc[2], ABSENT,
            PyNone, <<QueueName(1)>>, NoCondor, PyStr(V_bin)) :
        sc \in SEClassicChoices, x \in ExtraSections }

\* configurations that differ in their access points and queues
PathWorlds ==
    { World(PlainCE, ABSENT, ABSENT, ABSENT, PlainBind, PlainSE, <<>>, c, d, st,
            q, NoCondor, PyStr(V_bin)) :
        c \in ClassicChoices, d \in {ABSENT, <<>>, S_slash, V_d},
        st \in {PyNone, PyStr(<<>>), PyStr(S_slash), PyStr(V_d), PyStr(V_st)},
        q \in QueueLists }

\* configurations that differ in their job manager and CE flavour
CEWorlds ==
    { World([job_manager |-> j, name |-> n], cr, h[1], ABSENT, PlainBind, PlainSE,
            <<>>, PlainClassic, ABSENT, PyNone, <<QueueName(1)>>, h[2], PyStr(V_bin)) :
        j \in JobManagers, n \in {ABSENT, V_h}, cr \in {ABSENT, V_True},
        h \in ({<<ABSENT, NoCondor>>, <<V_False, NoCondor>>}
                 \cup {<<V_True, c>> : c \in CondorEnvs}) }

\* configurations that differ in their queues and PATH
QueueWorlds ==
    { World([job_manager |-> j, name |-> V_h], ABSENT, ABSENT, sp[1], PlainBind,
            PlainSE, <<>>, PlainClassic, ABSENT, PyNone, q, NoCondor, sp[2]) :
        j \in {S_pbs, S_lsf, S_sge},
        sp \in { <<ABSENT, PyStr(V_bin)>>,
                 <<V_sgebin, PyStr(V_bin \o <<":">> \o V_sgebin)>>,
                 <<V_sgebin, PyNone>> },
        q \in QueueLists }

Worlds == BindWorlds \cup SEWorlds \cup PathWorlds \cup CEWorlds \cup QueueWorlds

----------------------------------------------------------------------------
(* gip_common: VoMapper *)

\* str.split() without a separator: the pieces between runs of whitespace
RECURSIVE SplitWhite(_)
SplitWhite(s) ==
    LET t == LStrip(s)
        whites == {i \in 1..Len(t) : t[i] \in WhiteChars}
        cut == IF whites = {} THEN Len(t) + 1
               ELSE CHOOSE i \in whites : \A j \in whites : i <= j
    IN  IF t = <<>> THEN <<>>
        ELSE <<SubSeq(t, 1, cut - 1)>> \o SplitWhite(SubSeq(t, cut, Len(t)))

IsSet(ev, name) == ev[name].t # "none"

S_VDT_LOCATION == <<"$","V","D","T","_","L","O","C","A","T","I","O","N">>
S_GIP_LOCATION == <<"$","G","I","P","_","L","O","C","A","T","I","O","N">>

\* os.path.expandvars(path) for a path that may begin with one of the two
\* location variables: a variable that is not set is left as it is written
expandvars(path, ev) ==
    IF StartsWith(path, S_VDT_LOCATION) /\ IsSet(ev, "VDT_LOCATION")
    THEN ev.VDT_LOCATION.s \o DropFirst(path, Len(S_VDT_LOCATION))
    ELSE IF StartsWith(path, S_GIP_LOCATION) /\ IsSet(ev, "GIP_LOCATION")
    THEN ev.GIP_LOCATION.s \o DropFirst(path, Len(S_GIP_LOCATION))
    ELSE path

pickDir(dir, fallbackDir, envVar, ev) == IF IsSet(ev, envVar) THEN dir ELSE fallbackDir

vdtDir(tarDir, RPMDir, ev) == pickDir(tarDir, RPMDir, "VDT_LOCATION", ev)

\* os.path.exists(path)
exists(fs, path) == path \in DOMAIN fs

\* open(path, 'r'): IOError for a path that is missing or cannot be read
open(fs, path) ==
    IF exists(fs, path) /\ fs[path].readable
    THEN [exc |-> "none", val |-> fs[path].lines]
    ELSE [exc |-> "IOError", val |-> <<>>]

S_vo == <<"v","o">>
S_voi == <<"#","v","o","i">>
S_VOc == <<"#","V","O","c">>
S_uscms == <<"u","s","c","m","s">>
S_usatlas == <<"u","s","a","t","l","a","s">>
S_TarMap == <<"$","V","D","T","_","L","O","C","A","T","I","O","N","/","m","o","n","i","t","o","r","i","n","g","/","o","s","g","-","u","s","e","r","-","v","o","-","m","a","p",".","t","x","t">>
S_RPMMap == <<"/","v","a","r","/","l","i","b","/","o","s","g","/","u","s","e","r","-","v","o","-","m","a","p">>

\* before VoMapper(cp) has given an instance
NoVoMapper ==
    [made |-> FALSE, map_location |-> <<>>, voi |-> <<>>, voc |-> <<>>,
     userMap |-> EmptyDict]

\* ParseLine that starts userMap afresh with each data line
ParseLineForgetful(self, raw) ==
    LET line == Strip(raw)
        words == SplitWhite(line)
        vo == IF StartsWith(words[2], S_uscms) \/ StartsWith(words[2], S_usatlas)
              THEN DropFirst(words[2], 2) ELSE words[2]
    IN  IF StartsWith(line, S_voi) THEN [self EXCEPT !.voi = Tail(words)]
        ELSE IF StartsWith(line, S_VOc) THEN [self EXCEPT !.voc = Tail(words)]
        ELSE IF StartsWith(line, <<"#">>) THEN self
        ELSE IF Len(words) # 2 THEN self
        ELSE [self EXCEPT !.userMap = DictSet(EmptyDict, words[1], vo)]

\* ParseLine that stores every VO name as it is written
ParseLineVerbatim(self, raw) ==
    LET line == Strip(raw)
        words == SplitWhite(line)
    IN  IF StartsWith(line, S_voi) THEN [self EXCEPT !.voi = Tail(words)]
        ELSE IF StartsWith(line, S_VOc) THEN [self EXCEPT !.voc = Tail(words)]
        ELSE IF StartsWith(line, <<"#">>) THEN self
        ELSE IF Len(words) # 2 THEN self
        ELSE [self EXCEPT !.userMap = DictSet(self.userMap, words[1], words[2])]

\* the body of parse's loop for one line; what the try block raises is dropped
ParseLine(self, raw) ==
    LET line == Strip(raw)
        words == SplitWhite(line)
        vo == IF StartsWith(words[2], S_uscms) \/ StartsWith(words[2], S_usatlas)
              THEN DropFirst(words[2], 2) ELSE words[2]
    IN  IF StartsWith(line, S_voi) THEN [self EXCEPT !.voi = Tail(words)]
        ELSE IF StartsWith(line, S_VOc) THEN [self EXCEPT !.voc = Tail(words)]
        ELSE IF StartsWith(line, <<"#">>) THEN self
        ELSE IF Len(words) # 2 THEN self
        ELSE [self EXCEPT !.userMap = DictSet(self.userMap, words[1], vo)]

RECURSIVE ParseLines(_, _)
ParseLines(self, lines) ==
    IF lines = <<>> THEN self
    ELSE ParseLines(ParseLine(self, lines[1]), Tail(lines))

\* VoMapper.parse: the exception, or the instance after the parse
parse(self, fs, ev) ==
    LET fp == open(fs, expandvars(self.map_location, ev))
    IN  IF fp.exc # "none" THEN [exc |-> fp.exc, val |-> self]
        ELSE [exc |-> "none", val |-> ParseLines(self, fp.val)]

\* VoMapper(cp): the exception, or the instance
VoMapper(cp, fs, ev) ==
    LET self == [made |-> TRUE,
                 map_location |-> cp_get(cp, S_vo, "user_vo_map",
                                         PyStr(vdtDir(S_TarMap, S_RPMMap, ev))).val.s,
                 voi |-> <<>>, voc |-> <<>>, userMap |-> EmptyDict]
        parsed == parse(self, fs, ev)
    IN  IF parsed.exc # "none" THEN [exc |-> parsed.exc, val |-> NoVoMapper]
        ELSE IF DOMAIN parsed.val.userMap = {}
        THEN [exc |-> "ValueError", val |-> NoVoMapper]
        ELSE parsed


----------------------------------------------------------------------------
(* gip_common: check_gip_location *)

S_GipUnderVdt == S_VDT_LOCATION \o <<"/","g","i","p">>

\* check_gip_location(): the exception, and os.environ as it leaves it
check_gip_location(ev, fs) ==
    LET vdt_loc == expandvars(S_GipUnderVdt, ev)
        loc == expandvars(S_GIP_LOCATION, ev)
    IN  IF ~IsSet(ev, "GIP_LOCATION") /\ ~IsSet(ev, "VDT_LOCATION")
        THEN [exc |-> "none", environ |-> ev]
        ELSE IF ~IsSet(ev, "GIP_LOCATION")
        THEN IF IsSet(ev, "VDT_LOCATION")
             THEN IF exists(fs, vdt_loc)
                  THEN [exc |-> "none",
                        environ |-> [ev EXCEPT !.GIP_LOCATION = PyStr(vdt_loc)]]
                  ELSE [exc |-> "ValueError", environ |-> ev]
             ELSE [exc |-> "ValueError", environ |-> ev]
        ELSE IF ~exists(fs, loc)
        THEN [exc |-> "ValueError", environ |-> ev]
        ELSE [exc |-> "none", environ |-> ev]

----------------------------------------------------------------------------
(* gip_common: isDefined and notDefined *)

S_DEFAULT == <<"D","E","F","A","U","L","T">>
S_UNAVAILABLE == <<"U","N","A","V","A","I","L","A","B","L","E">>
S_UNDEFINED == <<"U","N","D","E","F","I","N","E","D">>

\* notDefined(val): val.lower() is looked up in a list of upper-case words
notDefined(val) ==
    IF val.t # "str" THEN Raise("AttributeError")
    ELSE IF Lower(val.s) \in {S_UNAVAILABLE, S_UNDEFINED, S_UNKNOWN}
    THEN Ret(PyTrue)
    ELSE Ret(PyFalse)

\* isDefined(val)
isDefined(val) ==
    IF Truthy(val) /\ val # PyStr(S_DEFAULT)
    THEN LET nd == notDefined(val)
         IN  IF nd.exc # "none" THEN nd
             ELSE IF ~Truthy(nd.val) THEN Ret(PyTrue) ELSE Ret(PyFalse)
    ELSE Ret(PyFalse)

----------------------------------------------------------------------------
(* The state *)

VARIABLES
    cp,             \* the site configuration
    env,            \* what the batch system, condor and the storage layer answer
    PATH,           \* os.environ["PATH"], None when unset
    op,             \* the function called last
    exc,            \* the exception it raised, "none" when it returned
    calls,          \* the external calls it made, in order
    extraCEs,       \* getCEList's argument
    classicSEs,     \* getSEList's argument
    ce_list,        \* getCEList's result
    se_list,        \* getSEList's result
    classicse_list, \* getClassicSEList's result
    section_map,    \* getSESections' result
    binds,          \* getCESEBindInfo's result
    pf_fn,          \* the helper of gip_common called last
    pf_args,        \* its arguments
    pf_out,         \* its outcome
    environ,        \* os.environ's GIP_LOCATION and VDT_LOCATION, None when unset
    files,          \* the file system: the paths that exist and what they hold
    vo_mapper       \* the VoMapper instance, its made FALSE before there is one

bindVars == <<op, exc, calls, extraCEs, classicSEs, ce_list, se_list,
              classicse_list, section_map, binds>>
worldVars == <<cp, env, PATH>>
pfVars == <<pf_fn, pf_args, pf_out>>
hostVars == <<environ, files, vo_mapper>>
vars == <<cp, env, PATH, op, exc, calls, extraCEs, classicSEs, ce_list, se_list,
          classicse_list, section_map, binds, pf_fn, pf_args, pf_out,
          environ, files, vo_mapper>>

\* nothing called yet
NoCall ==
    /\ op = "none" /\ exc = "none" /\ calls = <<>>
    /\ extraCEs = <<>> /\ classicSEs = TRUE
    /\ ce_list = <<>> /\ se_list = <<>> /\ classicse_list = <<>>
    /\ section_map = EmptyDict /\ binds = <<>>

NoHelperCall == pf_fn = "none" /\ pf_args = <<>> /\ pf_out = Ret(PyNone)

\* no location variable, no file and no VoMapper: what the bind generator, the
\* accessors and the FQAN helpers never look at
IdleHost ==
    /\ environ = [GIP_LOCATION |-> PyNone, VDT_LOCATION |-> PyNone]
    /\ files = <<>>
    /\ vo_mapper = [made |-> FALSE, map_location |-> <<>>, voi |-> <<>>, voc |-> <<>>,
                    userMap |-> <<>>]

Init ==
    /\ \E w \in Worlds : cp = w.cp /\ env = w.env /\ PATH = w.path
    /\ NoCall
    /\ NoHelperCall
    /\ IdleHost

\* the outcome of a call: everything a call does not set is cleared
Outcome(o, x, c, xc, cl, ces, ses, cls, sm, b) ==
    /\ op' = o /\ exc' = x /\ calls' = c /\ extraCEs' = xc /\ classicSEs' = cl
    /\ ce_list' = ces /\ se_list' = ses /\ classicse_list' = cls
    /\ section_map' = sm /\ binds' = b
    /\ UNCHANGED hostVars

CallGetCEList ==
    \E xc \in {<<>>, <<V_h2>>} :
        LET r == getCEList(cp, xc, env, PATH)
        IN  /\ Outcome("getCEList", r.exc, r.calls, xc, TRUE, r.val, <<>>, <<>>,
                       EmptyDict, <<>>)
            /\ PATH' = r.path
            /\ UNCHANGED <<cp, env, pfVars>>

CallGetClassicSEList ==
    /\ Outcome("getClassicSEList", "none", <<>>, <<>>, TRUE, <<>>, <<>>,
               getClassicSEList(cp), EmptyDict, <<>>)
    /\ UNCHANGED <<worldVars, pfVars>>

CallGetSEList ==
    \E cl \in BOOLEAN :
        LET r == getSEList(cp, cl, 1)
        IN  /\ \E order \in SetOrders(r.val) :
                   Outcome("getSEList", r.exc, <<>>, <<>>, cl, <<>>, order, <<>>,
                           EmptyDict, <<>>)
            /\ UNCHANGED <<worldVars, pfVars>>

CallGetSESections ==
    /\ Outcome("getSESections", "none", <<>>, <<>>, TRUE, <<>>, <<>>, <<>>,
               getSESections(cp), <<>>)
    /\ UNCHANGED <<worldVars, pfVars>>

CallGetCESEBindInfo ==
    LET c == getCEList(cp, <<>>, env, PATH)
        s == getSEList(cp, FALSE, 1)
        classic == getClassicSEList(cp)
        sm == getSESections(cp)
    IN  /\ PATH' = c.path
        /\ UNCHANGED <<cp, env, pfVars>>
        /\ IF c.exc # "none"
           THEN Outcome("getCESEBindInfo", c.exc, c.calls, <<>>, TRUE, <<>>, <<>>,
                        <<>>, EmptyDict, <<>>)
           ELSE IF s.exc # "none"
           THEN Outcome("getCESEBindInfo", s.exc, c.calls, <<>>, TRUE, c.val, <<>>,
                        <<>>, EmptyDict, <<>>)
           ELSE \E order \in SetOrders(s.val) :
                    Outcome("getCESEBindInfo", "none", c.calls, <<>>, TRUE, c.val,
                            order \o classic, classic, sm,
                            BindLoop(cp, order \o classic, c.val, classic, sm,
                                     ClassicAccessPoint(cp), DefaultAccessPoint(env)))

Next ==
    \/ CallGetCEList
    \/ CallGetClassicSEList
    \/ CallGetSEList
    \/ CallGetSESections
    \/ CallGetCESEBindInfo

Spec == Init /\ [][Next]_vars

----------------------------------------------------------------------------
(* The defaulted accessors, called on their own *)

MaxValueLen == 2

ValueChars == {"t", "F", "n", "Y", "1", "0", "x"}

\* the strings of at most n characters of ValueChars
StringsUpTo(n) == UNION {[1..k -> ValueChars] : k \in 0..n}

\* the values the option s.o is stored with
StoredValues ==
    StringsUpTo(MaxValueLen)
    \cup { V_True, V_False, <<"y","e","s">>, <<"n","o">>, <<"O","N">>,
           <<"m","a","y","b","e">>, <<" ","1","2"," ">>, <<"-","3">>,
           <<"a",","," ","b">>, <<"a"," ","b">>, <<"a",",",",","b">> }

\* the defaults a caller supplies
Defaults ==
    { PyNone, PyTrue, PyFalse, PyInt(12), PyInt(-3),
      PyStr(<<>>), PyStr(<<"7">>), PyStr(<<"x">>), PyStr(<<"a",",","b">>),
      PyStr(<<"m","a","y","b","e">>), PyList(<<>>), PyList(<<<<"n","o">>>>) }

S_s == <<"s">>

AccessorConfig(v) == <<MkSection(S_s, [o |-> v])>>

\* calls that read the stored option
StoredCalls ==
    { [cp |-> AccessorConfig(v), args |-> <<S_s, "o", d>>] :
        v \in StoredValues, d \in {PyNone, PyTrue, PyFalse, PyStr(<<"x">>)} }

\* calls for a (section, option) pair the configuration does not have
AbsentCalls ==
    { [cp |-> AccessorConfig(V_True), args |-> <<so[1], so[2], d>>] :
        so \in { <<S_s, "p">>, <<<<"x">>, "o">>, <<<<>>, "o">>, <<S_s, "">> },
        d \in Defaults }

IdleWorld ==
    /\ env = [queues |-> <<>>, condor |-> NoCondor, storage_path |-> PyNone]
    /\ PATH = PyStr(V_bin)

InitAccessors ==
    /\ \E c \in StoredCalls \cup AbsentCalls : cp = c.cp /\ pf_args = c.args
    /\ pf_fn = "none" /\ pf_out = Ret(PyNone)
    /\ IdleWorld
    /\ IdleHost
    /\ NoCall

HelperCall(f, out) ==
    /\ pf_fn' = f
    /\ pf_out' = out
    /\ UNCHANGED <<pf_args, worldVars, bindVars, hostVars>>

Call_cp_get ==
    /\ Len(pf_args) = 3
    /\ HelperCall("cp_get", cp_get(cp, pf_args[1], pf_args[2], pf_args[3]))

Call_cp_getBoolean ==
    /\ Len(pf_args) = 3
    /\ HelperCall("cp_getBoolean", cp_getBoolean(cp, pf_args[1], pf_args[2], pf_args[3]))

Call_cp_getInt ==
    /\ Len(pf_args) = 3
    /\ HelperCall("cp_getInt", cp_getInt(cp, pf_args[1], pf_args[2], pf_args[3]))

Call_cp_getList ==
    /\ Len(pf_args) = 3
    /\ HelperCall("cp_getList", cp_getList(cp, pf_args[1], pf_args[2], pf_args[3]))

NextAccessors ==
    \/ Call_cp_get
    \/ Call_cp_getBoolean
    \/ Call_cp_getInt
    \/ Call_cp_getList

SpecAccessors == InitAccessors /\ [][NextAccessors]_vars

----------------------------------------------------------------------------
(* The FQAN helpers, called on their own *)

MaxSubgroups == 1

S_cms == <<"c","m","s">>
S_production == <<"p","r","o","d","u","c","t","i","o","n">>
S_pilot == <<"p","i","l","o","t">>

\* cms, cms/production, cms/production/production, ...
RECURSIVE GroupPath(_)
GroupPath(k) == IF k = 0 THEN S_cms ELSE GroupPath(k - 1) \o S_slash \o S_production

FQANPaths ==
    {<<>>} \cup {GroupPath(k) : k \in 0..MaxSubgroups}
           \cup {S_slash \o GroupPath(k) : k \in 0..MaxSubgroups}

FQANRoles ==
    { <<>>, S_AnyRole, S_SlashRole \o S_pilot, S_SlashRole \o S_production,
      S_Role \o S_pilot, S_SlashRole \o S_pilot \o S_SlashRole \o S_pilot }

FQANPrefixes ==
    { <<>>, S_VOMS, S_VO, S_VOMS \o S_VO, S_VO \o S_VOMS, S_VOMS \o S_VOMS }

\* the strings normalizeFQAN and the first argument of matchFQAN are given
FQANInputs == {p \o g \o r : p \in FQANPrefixes, g \in FQANPaths, r \in FQANRoles}

\* the patterns matchFQAN is given as its second argument
FQANPatterns == {p \o g \o r : p \in {<<>>, S_VOMS, S_VO}, g \in FQANPaths, r \in FQANRoles}

InitFQAN ==
    /\ \E a \in FQANInputs : \E b \in FQANPatterns : pf_args = <<a, b>>
    /\ pf_fn = "none" /\ pf_out = Ret(PyNone)
    /\ cp = <<>>
    /\ IdleWorld
    /\ IdleHost
    /\ NoCall

Call_normalizeFQAN ==
    /\ Len(pf_args) = 2
    /\ HelperCall("normalizeFQAN", Ret(PyStr(normalizeFQAN(pf_args[1]))))

Call_matchFQAN ==
    /\ Len(pf_args) = 2
    /\ HelperCall("matchFQAN", matchFQAN(pf_args[1], pf_args[2]))

NextFQAN ==
    \/ Call_normalizeFQAN
    \/ Call_matchFQAN

SpecFQAN == InitFQAN /\ [][NextFQAN]_vars

----------------------------------------------------------------------------
(* VoMapper, with a map file that changes *)

MaxMapLines == 2

V_v == <<"/","v">>

\* where the map file is, by configuration and environment: vo.user_vo_map,
\* VDT_LOCATION, and the path these come to
MapSetups ==
    { [user_vo_map |-> ABSENT, VDT_LOCATION |-> PyNone, path |-> S_RPMMap],
      [user_vo_map |-> ABSENT, VDT_LOCATION |-> PyStr(V_v),
       path |-> V_v \o <<"/","m","o","n","i","t","o","r","i","n","g","/","o","s","g","-","u","s","e","r","-","v","o","-","m","a","p",".","t","x","t">>],
      [user_vo_map |-> V_m, VDT_LOCATION |-> PyNone, path |-> V_m],
      [user_vo_map |-> S_VDT_LOCATION \o V_m, VDT_LOCATION |-> PyStr(V_v),
       path |-> V_v \o V_m] }

\* the lines a map file is made of
MapLines ==
    { <<"u","1"," ","c","m","s","\n">>, <<" "," ","u","1"," "," "," ","u","s","a","t","l","a","s"," ","\n">>, <<"u","2"," ","u","s","c","m","s","\n">>, <<"#","v","o","i"," ","a"," ","b","\n">>,
      <<"#","V","O","c"," ","A","\n">>, <<"#","u","3"," ","c","m","s","\n">>, <<"u","3","\n">>, <<"u","3"," ","c","m","s"," ","x","\n">>, <<"\n">> }

File(readable, lines) == [readable |-> readable, lines |-> lines]

InitVoMapper ==
    /\ \E m \in MapSetups :
           /\ cp = MkConfig(<<MkSection(S_vo, [user_vo_map |-> m.user_vo_map])>>)
           /\ environ = [GIP_LOCATION |-> PyNone, VDT_LOCATION |-> m.VDT_LOCATION]
           /\ \E present \in BOOLEAN, readable \in BOOLEAN :
                  files = [p \in (IF present THEN {m.path} ELSE {}) |->
                               File(readable, <<>>)]
    /\ vo_mapper = NoVoMapper
    /\ NoHelperCall
    /\ IdleWorld
    /\ NoCall

\* a step of the program's surroundings: it leaves no helper call to speak of
Surroundings ==
    /\ pf_fn' = "none" /\ pf_args' = <<>> /\ pf_out' = Ret(PyNone)
    /\ UNCHANGED <<worldVars, bindVars>>

AppendMapLine ==
    \E p \in DOMAIN files : \E l \in MapLines :
        /\ Len(files[p].lines) < MaxMapLines
        /\ files' = [files EXCEPT ![p].lines = Append(@, l)]
        /\ Surroundings
        /\ UNCHANGED <<environ, vo_mapper>>

TruncateMapFile ==
    \E p \in DOMAIN files :
        /\ files[p].lines # <<>>
        /\ files' = [files EXCEPT ![p].lines = <<>>]
        /\ Surroundings
        /\ UNCHANGED <<environ, vo_mapper>>

ChmodMapFile ==
    \E p \in DOMAIN files :
        /\ files' = [files EXCEPT ![p].readable = ~@]
        /\ Surroundings
        /\ UNCHANGED <<environ, vo_mapper>>

\* vo_map = VoMapper(cp): nothing is bound when the constructor raises
Call_VoMapper ==
    LET r == VoMapper(cp, files, environ)
    IN  /\ pf_fn' = "VoMapper"
        /\ pf_out' = (IF r.exc = "none" THEN Ret(PyNone) ELSE Raise(r.exc))
        /\ vo_mapper' = (IF r.exc = "none" THEN r.val ELSE vo_mapper)
        /\ UNCHANGED <<pf_args, worldVars, bindVars, environ, files>>

\* vo_map.parse()
Call_parse ==
    /\ vo_mapper.made
    /\ LET r == parse(vo_mapper, files, environ)
       IN  /\ pf_fn' = "parse"
           /\ pf_out' = (IF r.exc = "none" THEN Ret(PyNone) ELSE Raise(r.exc))
           /\ vo_mapper' = r.val
    /\ UNCHANGED <<pf_args, worldVars, bindVars, environ, files>>

NextVoMapper ==
    \/ AppendMapLine
    \/ TruncateMapFile
    \/ ChmodMapFile
    \/ Call_VoMapper
    \/ Call_parse

SpecVoMapper == InitVoMapper /\ [][NextVoMapper]_vars


----------------------------------------------------------------------------
(* getHTCondorCEPort, called on its own *)

\* what condor_ce_config_val prints for COLLECTOR_HOST
CollectorHostOutputs ==
    { <<>>, <<"c","\n">>, <<"c",":","9","6","\n">>, <<" ","c",":","9","6"," ">>, <<"c",":">>, <<"c",":","9","x">>, <<"c",":","0","9","6">>, <<":","5">>,
      <<"[",":",":","1","]",":","9","8","\n">>, <<":",":","1">>, <<"[",":",":","1","]">>, <<":",":","9","8">>, <<"a",":","1",",","b",":","2">>, <<"[","a","]",":","7">> }

\* what it prints for COLLECTOR_PORT
CollectorPortOutputs ==
    { <<>>, <<"9","7","\n">>, <<" ","9","7"," ">>, <<"x">>, <<"-","3">>, <<"9",".","7">>, <<"0">> }

\* the ways a lookup can end
Lookups(outputs) ==
    {LaunchFails} \cup {Exits(rc, out) : rc \in {0, 1}, out \in outputs}

InitPort ==
    /\ \E h \in Lookups(CollectorHostOutputs) : \E p \in Lookups(CollectorPortOutputs) :
           env = [queues |-> <<>>, condor |-> [COLLECTOR_HOST |-> h, COLLECTOR_PORT |-> p],
                  storage_path |-> PyNone]
    /\ cp = <<>>
    /\ PATH = PyStr(V_bin)
    /\ NoHelperCall
    /\ IdleHost
    /\ NoCall

Call_getHTCondorCEPort ==
    /\ pf_fn' = "getHTCondorCEPort"
    /\ pf_out' = Ret(PyInt(getHTCondorCEPort(env.condor).port))
    /\ calls' = getHTCondorCEPort(env.condor).calls
    /\ UNCHANGED <<pf_args, worldVars, hostVars, op, exc, extraCEs, classicSEs,
                   ce_list, se_list, classicse_list, section_map, binds>>

NextPort == Call_getHTCondorCEPort

SpecPort == InitPort /\ [][NextPort]_vars


----------------------------------------------------------------------------
(* check_gip_location, called on its own *)

V_g == <<"/","g">>
V_x == <<"/","x">>

\* the values a location variable comes with, None when it is not set
LocationValues == {PyNone, PyStr(<<>>), PyStr(V_g), PyStr(V_v), PyStr(V_x)}

\* the directories there may be
Directories == {V_g, V_v, V_v \o <<"/","g","i","p">>, <<"/","g","i","p">>, V_x \o <<"/","g","i","p">>}

InitLocation ==
    /\ \E g \in LocationValues, v \in LocationValues :
           environ = [GIP_LOCATION |-> g, VDT_LOCATION |-> v]
    /\ \E ds \in SUBSET Directories : files = [p \in ds |-> File(FALSE, <<>>)]
    /\ vo_mapper = NoVoMapper
    /\ cp = <<>>
    /\ NoHelperCall
    /\ IdleWorld
    /\ NoCall

Call_check_gip_location ==
    LET r == check_gip_location(environ, files)
    IN  /\ pf_fn' = "check_gip_location"
        /\ pf_out' = (IF r.exc = "none" THEN Ret(PyNone) ELSE Raise(r.exc))
        /\ environ' = r.environ
        /\ UNCHANGED <<pf_args, worldVars, bindVars, files, vo_mapper>>

NextLocation == Call_check_gip_location

SpecLocation == InitLocation /\ [][NextLocation]_vars


----------------------------------------------------------------------------
(* isDefined and notDefined, called on their own *)

\* the first letter as it is, the others in lower case
Capitalised(w) == <<w[1]>> \o Lower(Tail(w))

\* a word as a value may spell it
Spellings(w) ==
    { w, Lower(w), Capitalised(w), <<" ">> \o w \o <<" ">>, w \o <<"S">>,
      <<LowerChar(w[1])>> \o Tail(w) }

\* the values isDefined and notDefined are given
DefinedInputs ==
    {PyStr(s) : s \in UNION {Spellings(w) : w \in {S_DEFAULT, S_UNAVAILABLE,
                                                 S_UNDEFINED, S_UNKNOWN}}}
    \cup {PyStr(s) : s \in {<<>>, <<"x">>, <<"c","m","s">>, <<"N","/","A">>, <<"0">>, <<"N","o","n","e">>, <<"U","N">>, <<" ">>}}
    \cup {PyNone, PyTrue, PyFalse, PyInt(12), PyList(<<>>), PyList(<<S_UNKNOWN>>)}

InitDefined ==
    /\ \E v \in DefinedInputs : pf_args = <<v>>
    /\ pf_fn = "none" /\ pf_out = Ret(PyNone)
    /\ cp = <<>>
    /\ IdleWorld
    /\ IdleHost
    /\ NoCall

Call_notDefined ==
    /\ Len(pf_args) = 1
    /\ HelperCall("notDefined", notDefined(pf_args[1]))

Call_isDefined ==
    /\ Len(pf_args) = 1
    /\ HelperCall("isDefined", isDefined(pf_args[1]))

NextDefined ==
    \/ Call_notDefined
    \/ Call_isDefined

SpecDefined == InitDefined /\ [][NextDefined]_vars


----------------------------------------------------------------------------
(* addToPath, called on its own *)

V_a == <<"/","a">>
V_b == <<"/","b">>

\* what PATH is to start with, None when it is not set
InitialPaths ==
    { PyNone, PyStr(<<>>), PyStr(V_bin), PyStr(V_bin \o <<":">> \o V_a),
      PyStr(V_a \o <<":">> \o V_bin \o <<":">> \o V_a) }

\* the elements addToPath is given
PathElements ==
    { PyStr(V_a), PyStr(V_b), PyStr(<<>>), PyStr(V_a \o <<":">> \o V_b), PyNone }

InitPath ==
    /\ PATH \in InitialPaths
    /\ env = [queues |-> <<>>, condor |-> NoCondor, storage_path |-> PyNone]
    /\ cp = <<>>
    /\ NoHelperCall
    /\ IdleHost
    /\ NoCall

Call_addToPath ==
    \E new_element \in PathElements :
        /\ pf_fn' = "addToPath"
        /\ pf_args' = <<new_element>>
        /\ pf_out' = Ret(PyNone)
        /\ PATH' = PyStr(addToPath(new_element, PATH))
        /\ UNCHANGED <<cp, env, bindVars, hostVars>>

NextPath == Call_addToPath

SpecPath == InitPath /\ [][NextPath]_vars


----------------------------------------------------------------------------
(* Properties of the bind generator *)

Elems(l) == {l[i] : i \in 1..Len(l)}

NoDuplicates(l) == \A i, j \in 1..Len(l) : l[i] = l[j] => i = j

Returned(f) == op = f /\ exc = "none"

\* C1: when getCESEBindInfo returns, there is exactly one bind record per
\* position pair of the SE list (getSEList without classic SEs, followed by the
\* classic SEs) and the CE list of getCEList, SE-major, duplicates kept.
C1_OneRecordPerPair ==
    Returned("getCESEBindInfo") =>
        LET n == Len(ce_list)
        IN  /\ ce_list = getCEList(cp, <<>>, env, PATH).val
            /\ \E order \in SetOrders(getSEList(cp, FALSE, 1).val) :
                   se_list = order \o getClassicSEList(cp)
            /\ Len(binds) = Len(se_list) * n
            /\ \A i \in 1..Len(se_list) : \A j \in 1..n :
                   /\ binds[(i - 1) * n + j].seUniqueID = se_list[i]
                   /\ binds[(i - 1) * n + j].ceUniqueID = ce_list[j]

\* getCESEBindInfo has returned for an SE list that names one SE twice (a
\* classic SE with the name of a configured one) and more than one CE
C1_Witness ==
    /\ Returned("getCESEBindInfo")
    /\ Len(ce_list) >= 2
    /\ Len(se_list) >= 2
    /\ ~NoDuplicates(se_list)

\* the classic access point: osg_dirs.data, "/" when it is not configured
ConfiguredClassicPath(c) ==
    IF HasOption(c, S_osg_dirs, "data") THEN SectionOpts(c, S_osg_dirs)["data"]
    ELSE S_slash

\* the default storage path, "/" when the storage layer gives none
ConfiguredDefaultPath(e) ==
    IF e.storage_path.t = "str" /\ e.storage_path.s # <<>> THEN e.storage_path.s
    ELSE S_slash

\* C2 as stated: a record's access point is the classic access point if and
\* only if its SE is a classic SE, and the default storage path otherwise.
C2_Original ==
    Returned("getCESEBindInfo") =>
        \A k \in 1..Len(binds) :
            /\ (binds[k].access_point = ConfiguredClassicPath(cp))
                   <=> (binds[k].seUniqueID \in Elems(getClassicSEList(cp)))
            /\ binds[k].seUniqueID \notin Elems(getClassicSEList(cp))
                   => binds[k].access_point = ConfiguredDefaultPath(env)

\* C2, amended: a record's access point is the classic access point when its
\* SE is a classic SE and the default storage path when it is not (the two
\* paths may be the same string).
C2_AccessPointByClass ==
    Returned("getCESEBindInfo") =>
        \A k \in 1..Len(binds) :
            binds[k].access_point =
                IF binds[k].seUniqueID \in Elems(getClassicSEList(cp))
                THEN ConfiguredClassicPath(cp)
                ELSE ConfiguredDefaultPath(env)

\* records of a classic and of a non-classic SE, with two different paths
C2_Witness ==
    /\ Returned("getCESEBindInfo")
    /\ ConfiguredClassicPath(cp) # ConfiguredDefaultPath(env)
    /\ \E k \in 1..Len(binds) : binds[k].seUniqueID \in Elems(getClassicSEList(cp))
    /\ \E k \in 1..Len(binds) : binds[k].seUniqueID \notin Elems(getClassicSEList(cp))

\* explicit mode with a failing read of cesebind.se_list
ExplicitReadFails(c) ==
    /\ CpGetboolean(c, cesebind, "simple") = Ret(PyFalse)
    /\ ~HasOption(c, cesebind, "se_list")

\* C3: in explicit mode, when reading cesebind.se_list fails, getSEList
\* returns the list simple mode returns for the configuration (plus the
\* classic SEs when requested).
C3_FallsBackToSimple ==
    (op = "getSEList" /\ ExplicitReadFails(cp)) =>
        /\ exc = "none"
        /\ NoDuplicates(se_list)
        /\ Elems(se_list) =
               Elems(SimpleSEList(cp))
                   \cup (IF classicSEs THEN Elems(getClassicSEList(cp)) ELSE {})

RecognisedJobManagers == {S_pbs, S_lsf, S_condor, S_slurm, S_sge}

\* ce.job_manager is set, and is none of the five job managers
UnknownJobManager(c) ==
    /\ HasOption(c, ce, "job_manager")
    /\ Lower(Strip(SectionOpts(c, ce)["job_manager"])) \notin RecognisedJobManagers

HTCondorCEEnabled(c) ==
    Truthy(cp_getBoolean(c, S_htcondorce, "enabled", PyFalse).val)

\* C4 as stated: with an unknown job manager getCEList raises ValueError before
\* any queue listing, bootstrap, PATH change or external subprocess, and
\* returns no list.
C4_Original ==
    (op = "getCEList" /\ UnknownJobManager(cp)) =>
        exc = "ValueError" /\ calls = <<>> /\ ce_list = <<>>

\* C4, amended: with an unknown job manager getCEList raises and returns no
\* list: ValueError when ce.name is set, NoOptionError from the read of ce.name
\* when it is not.  PATH is unchanged and no queue listing or bootstrap has
\* run; the only external calls made are the condor_ce_config_val lookups of
\* getHTCondorCEPort, made when ce.name is set and htcondorce is enabled.
C4_UnknownJobManagerRaises ==
    [][ (op' = "getCEList" /\ UnknownJobManager(cp)) =>
            /\ exc' = (IF HasOption(cp, ce, "name") THEN "ValueError" ELSE "NoOptionError")
            /\ ce_list' = <<>>
            /\ PATH' = PATH
            /\ \A i \in 1..Len(calls') : calls'[i] = "condor_ce_config_val"
            /\ (calls' # <<>>) <=> (HasOption(cp, ce, "name") /\ HTCondorCEEnabled(cp))
      ]_vars

\* getCEList has raised ValueError for an unknown job manager after the port
\* lookup ran
C4_Witness ==
    /\ op = "getCEList" /\ UnknownJobManager(cp)
    /\ exc = "ValueError"
    /\ calls # <<>>

\* the sections whose name starts with "se" whatever the case of its letters,
\* that do not suppress advertisement
AdvertisedSESections(c) ==
    {i \in 1..Len(c) :
        /\ StartsWith(Lower(c[i].name), se)
        /\ Truthy(cp_getBoolean(c, c[i].name, "advertise_se", PyTrue).val)}

\* C5: in simple mode getSEList returns each name once, and the names are the
\* unique_name of every advertised section whose name starts with "se" in any
\* case, plus the classic SE when requested.
C5_SimpleModeNames ==
    (Returned("getSEList") /\ CpGetboolean(cp, cesebind, "simple") = Ret(PyTrue)) =>
        /\ NoDuplicates(se_list)
        /\ Elems(se_list) =
               {cp[i].opts["unique_name"] :
                    i \in {k \in AdvertisedSESections(cp) : "unique_name" \in DOMAIN cp[k].opts}}
               \cup (IF classicSEs THEN Elems(getClassicSEList(cp)) ELSE {})

BindKeys == {"ceUniqueID", "seUniqueID", "access_point", "mount_point"}

\* the sections that declare SE name u
Declaring(c, u) ==
    {i \in 1..Len(c) : "unique_name" \in DOMAIN c[i].opts /\ c[i].opts["unique_name"] = u}

\* C10 as stated: mount_point is the GlueCESEBindMountInfo line of the section
\* that declares the record's SE when that section has a mount_point option,
\* and empty otherwise; every record has exactly the four keys.
C10_Original ==
    Returned("getCESEBindInfo") =>
        \A k \in 1..Len(binds) :
            LET with == {i \in Declaring(cp, binds[k].seUniqueID) :
                             "mount_point" \in DOMAIN cp[i].opts}
            IN  /\ DOMAIN binds[k] = BindKeys
                /\ binds[k].mount_point \in
                       IF with = {} THEN {<<>>}
                       ELSE {S_MountInfo \o cp[i].opts["mount_point"] : i \in with}

\* the sections getSESections can map SE name u to: those that declare it, are
\* named se... in any case but not just "se", and advertise
MappedSections(c, u) ==
    {i \in Declaring(c, u) :
        /\ StartsWith(Lower(c[i].name), se)
        /\ Lower(c[i].name) # se
        /\ Truthy(cp_getBoolean(c, c[i].name, "advertise_se", PyTrue).val)}

\* C10, amended: mount_point is the GlueCESEBindMountInfo line holding the
\* mount_point option of the last section, in cp.sections() order, that passes
\* the section filter of getSESections and declares the record's SE, when there
\* is such a section and the option is set and not empty; it is empty
\* otherwise.  Every record has exactly the four keys.
C10_MountPointOfMappedSection ==
    Returned("getCESEBindInfo") =>
        \A k \in 1..Len(binds) :
            LET m == MappedSections(cp, binds[k].seUniqueID)
                last == CHOOSE i \in m : \A j \in m : j <= i
            IN  /\ DOMAIN binds[k] = BindKeys
                /\ binds[k].mount_point =
                       IF m # {} /\ "mount_point" \in DOMAIN cp[last].opts
                                 /\ cp[last].opts["mount_point"] # <<>>
                       THEN S_MountInfo \o cp[last].opts["mount_point"]
                       ELSE <<>>

\* a record carries a mount point line, for an SE that two mapped sections
\* declare
C10_Witness ==
    /\ Returned("getCESEBindInfo")
    /\ \E k \in 1..Len(binds) :
           /\ binds[k].mount_point # <<>>
           /\ Cardinality(MappedSections(cp, binds[k].seUniqueID)) >= 2

----------------------------------------------------------------------------
(* Properties of the defaulted accessors *)

Accessors == {"cp_get", "cp_getBoolean", "cp_getInt", "cp_getList"}

\* the pair (section, option) of the call is not in the configuration
PairAbsent == ~HasOption(cp, pf_args[1], pf_args[2])

\* C6: for a (section, option) pair absent from the configuration, every
\* defaulted accessor returns exactly the supplied default, whatever it is,
\* and does not raise.
C6_AbsentGivesDefault ==
    (pf_fn \in Accessors /\ PairAbsent) => pf_out = Ret(pf_args[3])

ContainsAny(s, chars) == \E i \in 1..Len(s) : s[i] \in chars

\* C7: cp_getBoolean yields True for a stored value that contains t, y or 1 in
\* either case, else False for one that contains f, n or 0, and the supplied
\* default for any other stored value and for an absent option.
C7_BooleanBySubstring ==
    pf_fn = "cp_getBoolean" =>
        LET v == IF PairAbsent THEN <<>> ELSE Lower(SectionOpts(cp, pf_args[1])[pf_args[2]])
        IN  pf_out =
                IF ~PairAbsent /\ ContainsAny(v, {"t", "y", "1"}) THEN Ret(PyTrue)
                ELSE IF ~PairAbsent /\ ContainsAny(v, {"f", "n", "0"}) THEN Ret(PyFalse)
                ELSE Ret(pf_args[3])

----------------------------------------------------------------------------
(* Properties of the FQAN helpers *)

\* the prefixes normalizeFQAN can have removed
RemovablePrefixes == {<<>>, S_VOMS, S_VO, S_VOMS \o S_VO}

\* r is s without its prefix p, with "/" in front unless it has one, and
\* with "/Role=*" at its end exactly when s holds no "Role="
NormalFormOf(r, s, p) ==
    LET core == DropFirst(s, Len(p))
    IN  /\ StartsWith(s, p)
        /\ ~StartsWith(core, S_VO)
        /\ (p \in {<<>>, S_VO}) => ~StartsWith(s, S_VOMS)
        /\ r = (IF StartsWith(core, S_slash) THEN <<>> ELSE S_slash)
               \o core
               \o (IF Find(s, S_Role) < 0 THEN S_AnyRole ELSE <<>>)

\* C8: normalizeFQAN returns its input without a leading VOMS: and/or VO:,
\* with a leading "/", and with "/Role=*" appended exactly when the input
\* holds no "Role="; VOMS:/cms gives /cms/Role=* and VO:cms/Role=production
\* gives /cms/Role=production.
C8_NormalForm ==
    /\ pf_fn = "normalizeFQAN" =>
           /\ pf_out.exc = "none"
           /\ \E p \in RemovablePrefixes : NormalFormOf(pf_out.val.s, pf_args[1], p)
    /\ (pf_fn = "normalizeFQAN" /\ pf_args[1] = S_VOMS \o S_slash \o S_cms)
           => pf_out.val.s = S_slash \o S_cms \o S_AnyRole
    /\ (pf_fn = "normalizeFQAN"
            /\ pf_args[1] = S_VO \o S_cms \o S_SlashRole \o S_production)
           => pf_out.val.s = S_slash \o S_cms \o S_SlashRole \o S_production

\* normalizeFQAN has been applied to a string with both prefixes, no leading
\* "/" and no role
C8_Witness ==
    /\ pf_fn = "normalizeFQAN"
    /\ pf_args[1] = S_VOMS \o S_VO \o S_cms
    /\ pf_out.val.s = S_slash \o S_cms \o S_AnyRole

\* an FQAN in one of the forms VOMS:<FQAN>, VO:<VO>, <FQAN>, <VO>: after the
\* prefix a VO, groups, and at most one role, which "/Role=" introduces
IsFQAN(s) ==
    LET f1 == IF StartsWith(s, S_VOMS) THEN DropFirst(s, 5) ELSE s
        body == IF StartsWith(f1, S_VO) THEN DropFirst(f1, 3) ELSE f1
    IN  /\ body # <<>>
        /\ Count(body, S_Role) <= 1
        /\ Count(body, S_Role) = 1 => Find(body, S_SlashRole) >= 1

\* the group and the role of a normalized FQAN that has one "/Role="
GroupOf(n) == SubSeq(n, 1, Find(n, S_SlashRole))
RoleOf(n)  == DropFirst(n, Find(n, S_SlashRole) + Len(S_SlashRole))

\* C9: for FQANs a and b, matchFQAN(a, b) is True exactly when, of the
\* normalized forms, b's role is * or a's role, and a's group starts with b's
\* group; it is False otherwise.
C9_MatchByGroupAndRole ==
    (pf_fn = "matchFQAN" /\ IsFQAN(pf_args[1]) /\ IsFQAN(pf_args[2])) =>
        LET a == normalizeFQAN(pf_args[1])
            b == normalizeFQAN(pf_args[2])
        IN  pf_out = Ret(PyBool(/\ RoleOf(b) = S_Star \/ RoleOf(b) = RoleOf(a)
                                /\ StartsWith(GroupOf(a), GroupOf(b))))

\* matchFQAN has matched a subgroup with a role against its VO with any role
C9_Witness ==
    /\ pf_fn = "matchFQAN"
    /\ pf_args = << S_slash \o S_cms \o S_slash \o S_production \o S_SlashRole \o S_pilot,
                    S_slash \o S_cms \o S_AnyRole >>
    /\ pf_out = Ret(PyTrue)

----------------------------------------------------------------------------
(* Properties of getCEList *)

\* the queue-listing function of each job manager, and the bootstrap steps
QueueListerOf(jobman) ==
    CASE jobman = S_pbs    -> "getPBSQueueList"
      [] jobman = S_lsf    -> "getLSFQueueList"
      [] jobman = S_condor -> "getCondorQueueList"
      [] jobman = S_slurm  -> "getSlurmQueueList"
      [] jobman = S_sge    -> "getSGEQueueList"

QueueListers == {QueueListerOf(j) : j \in RecognisedJobManagers}

BootstrapSteps == {"bootstrapLSF", "bootstrapSGE", "addToPath"}

\* the job manager getCEList works with: ce.job_manager trimmed, lower-cased
JobManagerOf(c) == Lower(Strip(SectionOpts(c, ce)["job_manager"]))

\* ce.job_manager names one of the five job managers and ce.name is set, so
\* that getCEList gets as far as the dispatch
ReachesDispatch(c) ==
    /\ HasOption(c, ce, "job_manager")
    /\ JobManagerOf(c) \in RecognisedJobManagers
    /\ HasOption(c, ce, "name")

\* the positions of the calls of l that are in the set fs
CallsOf(l, fs) == {i \in 1..Len(l) : l[i] \in fs}

\* C11: for a recognised job manager getCEList calls one queue-listing
\* function, the manager's own, once; for lsf and sge the bootstrap, and for
\* sge the PATH update, come before it; for pbs, condor and slurm no bootstrap
\* runs and PATH is unchanged.
C11_OneQueueListing ==
    [][ (op' = "getCEList" /\ ReachesDispatch(cp)) =>
            LET jobman == JobManagerOf(cp)
                listings == CallsOf(calls', QueueListers)
                at == CHOOSE i \in listings : TRUE
                before == {calls'[i] : i \in 1..(at - 1)}
            IN  /\ Cardinality(listings) = 1
                /\ calls'[at] = QueueListerOf(jobman)
                /\ CallsOf(calls', BootstrapSteps) \subseteq 1..(at - 1)
                /\ jobman = S_lsf => "bootstrapLSF" \in before
                /\ jobman = S_sge =>
                       /\ {"bootstrapSGE", "addToPath"} \subseteq before
                       /\ PATH'.t = "str"
                       /\ StartsWith(PATH'.s,
                              IF HasOption(cp, S_sge, "sge_path")
                              THEN SectionOpts(cp, S_sge)["sge_path"] ELSE S_dot)
                /\ jobman \in {S_pbs, S_condor, S_slurm} =>
                       /\ CallsOf(calls', BootstrapSteps) = {}
                       /\ PATH' = PATH
      ]_vars

\* getCEList has run for sge: bootstrap, PATH update, then the one listing
C11_Witness ==
    /\ op = "getCEList" /\ ReachesDispatch(cp)
    /\ JobManagerOf(cp) = S_sge
    /\ calls = <<"bootstrapSGE", "addToPath", "getSGEQueueList">>
    /\ PATH = PyStr(V_sgebin \o <<":">> \o V_bin)

CreamEnabled(c) == Truthy(cp_getBoolean(c, S_cream, "enabled", PyFalse).val)

\* the hostnames getCEList names CEs for: ce.name, then extraCEs
Hostnames(c, extra) == <<SectionOpts(c, ce)["name"]>> \o extra

\* the prefix and the port text of a site's CEs
FlavourOf(c, e) ==
    IF HTCondorCEEnabled(c)
    THEN <<S_htcondorce, IntToStr(getHTCondorCEPort(e.condor).port)>>
    ELSE IF CreamEnabled(c) THEN <<S_cream, <<"8","4","4","3">>>>
    ELSE <<S_jobmanager, <<"2","1","1","9">>>>

\* C12: every CE identifier getCEList returns is
\* hostname:port/prefix-jobmanager-queue with (prefix, port) = (jobmanager, 2119)
\* when neither CREAM nor HTCondor-CE is enabled, (cream, 8443) when only CREAM
\* is, (htcondorce, the resolved port) whenever HTCondor-CE is.
C12_CEIdentifierForm ==
    Returned("getCEList") =>
        \A i \in 1..Len(ce_list) :
            \E h \in Elems(Hostnames(cp, extraCEs)) : \E q \in Elems(env.queues) :
                ce_list[i] = h \o <<":">> \o FlavourOf(cp, env)[2] \o <<"/">>
                                \o FlavourOf(cp, env)[1] \o <<"-">>
                                \o JobManagerOf(cp) \o <<"-">> \o q

\* getCEList has named a CE of a site with both CREAM and HTCondor-CE enabled,
\* the port coming from COLLECTOR_HOST
C12_Witness ==
    /\ Returned("getCEList")
    /\ CreamEnabled(cp) /\ HTCondorCEEnabled(cp)
    /\ ce_list = << V_h \o <<":","9","6","/">> \o S_htcondorce \o <<"-">> \o S_pbs
                       \o <<"-">> \o QueueName(1) >>

EndsWith(s, suffix) ==
    /\ Len(suffix) <= Len(s)
    /\ SubSeq(s, Len(s) - Len(suffix) + 1, Len(s)) = suffix

\* C13: getCEList returns one CE identifier per (hostname, queue) pair,
\* hostnames being ce.name followed by extraCEs and queues the list of the
\* queue listing: |hostnames| x |queues| identifiers, queue-major,
\* hostname-minor.
C13_OneCEPerHostAndQueue ==
    Returned("getCEList") =>
        LET hostnames == Hostnames(cp, extraCEs)
            n == Len(hostnames)
        IN  /\ Len(ce_list) = n * Len(env.queues)
            /\ \A k \in 1..Len(env.queues) : \A i \in 1..n :
                   /\ StartsWith(ce_list[(k - 1) * n + i], hostnames[i] \o <<":">>)
                   /\ EndsWith(ce_list[(k - 1) * n + i], <<"-">> \o env.queues[k])

\* getCEList has returned the identifiers of two hostnames and two queues
C13_Witness ==
    /\ Returned("getCEList")
    /\ Len(Hostnames(cp, extraCEs)) = 2 /\ Len(env.queues) = 2
    /\ Len(ce_list) = 4
    /\ StartsWith(ce_list[2], V_h2) /\ EndsWith(ce_list[2], QueueName(1))
    /\ StartsWith(ce_list[3], V_h) /\ EndsWith(ce_list[3], QueueName(2))

----------------------------------------------------------------------------
(* Properties of VoMapper *)

\* the map file as it stands, and whether open() can read it
MapFileReadable == \E p \in DOMAIN files : files[p].readable

MapFileLines == files[CHOOSE p \in DOMAIN files : TRUE].lines

\* a well-formed data line: not a comment, two words
WellFormed(line) ==
    /\ ~StartsWith(Strip(line), <<"#">>)
    /\ Len(SplitWhite(line)) = 2

UserOf(line) == SplitWhite(line)[1]

\* the VO name as stored: uscms... and usatlas... lose their first two characters
StoredVO(line) ==
    LET vo == SplitWhite(line)[2]
    IN  IF StartsWith(vo, S_uscms) \/ StartsWith(vo, S_usatlas)
        THEN SubSeq(vo, 3, Len(vo)) ELSE vo

\* the map a file spells out: each user of a well-formed line, with the VO of
\* the last such line
MapOf(lines) ==
    LET good == {i \in 1..Len(lines) : WellFormed(lines[i])}
        last(u) == CHOOSE i \in good :
                       /\ UserOf(lines[i]) = u
                       /\ \A j \in good : UserOf(lines[j]) = u => j <= i
    IN  [u \in {UserOf(lines[i]) : i \in good} |-> StoredVO(lines[last(u)])]

\* C14: VoMapper(cp) raises ValueError exactly when its map file has no
\* well-formed data line; otherwise it returns with userMap the map the file
\* spells out, malformed and comment lines skipped, uscms/usatlas VO names
\* without their first two characters.  (A file that cannot be read gives
\* IOError.)
C14_VoMapperRaisesOnEmptyMap ==
    pf_fn = "VoMapper" =>
        IF ~MapFileReadable THEN pf_out = Raise("IOError")
        ELSE /\ pf_out.exc \in {"none", "ValueError"}
             /\ pf_out = Raise("ValueError") <=> DOMAIN MapOf(MapFileLines) = {}
             /\ pf_out.exc = "none" =>
                    vo_mapper.made /\ vo_mapper.userMap = MapOf(MapFileLines)

\* VoMapper(cp) has raised ValueError on a file of a comment and a malformed line
C14_Witness ==
    /\ pf_fn = "VoMapper" /\ pf_out = Raise("ValueError")
    /\ MapFileReadable
    /\ MapFileLines = << <<"#","u","3"," ","c","m","s","\n">>, <<"u","3"," ","c","m","s"," ","x","\n">> >>

\* VoMapper(cp) has returned with a usatlas name stored as atlas
C14_WitnessStored ==
    /\ pf_fn = "VoMapper" /\ pf_out = Ret(PyNone)
    /\ vo_mapper.userMap = [u \in {<<"u","1">>} |-> <<"a","t","l","a","s">>]

\* C19: parse only adds or overwrites: after it, userMap has every user of a
\* well-formed line of the file with the VO of the last such line, and every
\* other user it had before, unchanged; a parse that cannot read the file
\* leaves userMap as it was.
C19_ParseAccumulates ==
    [][ pf_fn' = "parse" =>
            LET before == vo_mapper.userMap
                after == vo_mapper'.userMap
                file == MapOf(MapFileLines)
            IN  IF pf_out'.exc # "none" THEN after = before
                ELSE /\ DOMAIN after = DOMAIN before \cup DOMAIN file
                     /\ \A u \in DOMAIN after :
                            after[u] = IF u \in DOMAIN file THEN file[u] ELSE before[u]
      ]_vars

\* parse has returned, and userMap still has a user that is not in the file
C19_Witness ==
    /\ pf_fn = "parse" /\ pf_out = Ret(PyNone)
    /\ MapFileReadable
    /\ <<"u","2">> \in DOMAIN MapOf(MapFileLines)
    /\ <<"u","1">> \notin DOMAIN MapOf(MapFileLines)
    /\ <<"u","1">> \in DOMAIN vo_mapper.userMap


----------------------------------------------------------------------------
(* Properties of the error handling *)

\* the exceptions an absent option comes out as: ConfigParser's two, and the
\* RuntimeError getSEList's fallback for an absent cesebind.se_list ends in
AbsenceErrors == {"NoSectionError", "NoOptionError", "RuntimeError"}

\* VoMapper(cp) has not raised for a map file it could not open
UnreadableMapFileNotRaised == pf_fn = "VoMapper" => pf_out.exc # "IOError"

\* C15: getCEList, getSEList and getCESEBindInfo never raise for a configuration
\* option that is absent, and VoMapper(cp) never raises for a map file it
\* cannot read: the condition is defaulted or skipped.
C15_SoftConditionsNotRaised ==
    /\ op \in {"getCEList", "getSEList", "getCESEBindInfo"} => exc \notin AbsenceErrors
    /\ UnreadableMapFileNotRaised

----------------------------------------------------------------------------
(* Properties of getHTCondorCEPort *)

\* what a lookup counts as: its stripped output, or undefined when it exits
\* nonzero or cannot be launched
Defined(process) == process.launched /\ process.returncode = 0

\* the positions of s after which only digits follow, at least one: a port
PortAt(s) ==
    {k \in 1..(Len(s) - 1) :
        s[k] = ":" /\ \A i \in (k + 1)..Len(s) : s[i] \in {DigitChars[d] : d \in 1..10}}

Colons(s) == Cardinality({k \in 1..Len(s) : s[k] = ":"})

\* the value has a port at its end; with more than one colon, as ]:port
HasPort(s) ==
    \E k \in PortAt(s) : Colons(s) > 1 => (k > 1 /\ s[k - 1] = "]")

PortOf(s) == LET k == CHOOSE k \in PortAt(s) : TRUE IN DigitsVal(SubSeq(s, k + 1, Len(s)))

\* C16: getHTCondorCEPort returns an integer whatever the lookups do: the port
\* at the end of COLLECTOR_HOST if it has one, else the integer value of
\* COLLECTOR_PORT, else 9619; a lookup that exits nonzero or cannot be launched
\* counts as undefined.
C16_HTCondorCEPort ==
    pf_fn = "getHTCondorCEPort" =>
        LET h == env.condor.COLLECTOR_HOST
            p == env.condor.COLLECTOR_PORT
            host == Strip(h.output)
        IN  /\ pf_out.exc = "none" /\ pf_out.val.t = "int"
            /\ pf_out.val.n =
                   IF Defined(h) /\ HasPort(host) THEN PortOf(host)
                   ELSE IF Defined(p) /\ ParseInt(p.output).exc = "none"
                   THEN ParseInt(p.output).val.n
                   ELSE 9619

\* getHTCondorCEPort has fallen back to COLLECTOR_PORT for a COLLECTOR_HOST of
\* two colons that ends in digits
C16_Witness ==
    /\ pf_fn = "getHTCondorCEPort"
    /\ env.condor.COLLECTOR_HOST = Exits(0, <<":",":","9","8">>)
    /\ env.condor.COLLECTOR_PORT = Exits(0, <<"9","7","\n">>)
    /\ pf_out = Ret(PyInt(97))


----------------------------------------------------------------------------
(* Properties of check_gip_location *)

\* C17: when check_gip_location returns, GIP_LOCATION is set to a path that
\* exists (to $VDT_LOCATION/gip when it was not set and that path exists); in
\* every other situation, the location variables being missing among them, it
\* raises ValueError.
C17_GipLocationSetAndExists ==
    [][ pf_fn' = "check_gip_location" =>
            IF IsSet(environ, "GIP_LOCATION")
            THEN /\ environ' = environ
                 /\ pf_out'.exc = (IF exists(files, environ.GIP_LOCATION.s)
                                   THEN "none" ELSE "ValueError")
            ELSE IF /\ IsSet(environ, "VDT_LOCATION")
                    /\ exists(files, environ.VDT_LOCATION.s \o <<"/","g","i","p">>)
            THEN /\ pf_out'.exc = "none"
                 /\ environ' = [environ EXCEPT !.GIP_LOCATION =
                                    PyStr(environ.VDT_LOCATION.s \o <<"/","g","i","p">>)]
            ELSE /\ pf_out'.exc = "ValueError"
                 /\ environ' = environ
      ]_vars


----------------------------------------------------------------------------
(* Properties of isDefined and notDefined *)

UndefinedWords == {S_UNAVAILABLE, S_UNDEFINED, S_UNKNOWN}

\* C18: notDefined(val) is True when val is UNAVAILABLE, UNDEFINED or UNKNOWN,
\* and isDefined(val) is False for these values, for empty values and for
\* DEFAULT.
C18_UndefinedWordsNotDefined ==
    /\ (pf_fn = "notDefined" /\ pf_args[1].t = "str" /\ pf_args[1].s \in UndefinedWords)
           => pf_out = Ret(PyTrue)
    /\ (pf_fn = "isDefined" /\ (\/ ~Truthy(pf_args[1])
                                \/ pf_args[1] = PyStr(S_DEFAULT)
                                \/ pf_args[1].t = "str" /\ pf_args[1].s \in UndefinedWords))
           => pf_out = Ret(PyFalse)

\* what notDefined and isDefined come to: notDefined is False for every string
NotDefinedIsAlwaysFalse ==
    /\ (pf_fn = "notDefined" /\ pf_args[1].t = "str") => pf_out = Ret(PyFalse)
    /\ (pf_fn = "isDefined" /\ pf_args[1].t = "str") =>
           pf_out = Ret(PyBool(pf_args[1].s # <<>> /\ pf_args[1].s # S_DEFAULT))


----------------------------------------------------------------------------
(* Properties of addToPath *)

\* the entries of a PATH
Entries(path) == Split(path.s, <<":">>)

ColonFree(v) == v.t = "str" /\ \A i \in 1..Len(v.s) : v.s[i] # ":"

\* the positions of l that hold the first occurrence of an entry other than e
FirstOthers(l, e) ==
    {i \in 1..Len(l) : l[i] # e /\ \A j \in 1..(i - 1) : l[j] # l[i]}

\* the k-th smallest member of a set of numbers
Kth(ns, k) == CHOOSE i \in ns : Cardinality({j \in ns : j <= i}) = k

\* C20: after addToPath of a colon-free element on a set PATH, PATH has no
\* entry twice, starts with the element added, and goes on with the other
\* entries it had, in the order they had; adding the same element again leaves
\* PATH as it is.
C20_AddToPathMovesToFront ==
    [][ (pf_fn' = "addToPath" /\ PATH.t = "str" /\ ColonFree(pf_args'[1])) =>
            LET old == Entries(PATH)
                new == Entries(PATH')
                e == pf_args'[1].s
                others == FirstOthers(old, e)
            IN  /\ NoDuplicates(new)
                /\ new[1] = e
                /\ Len(new) = 1 + Cardinality(others)
                /\ \A k \in 1..Cardinality(others) : new[k + 1] = old[Kth(others, k)]
                /\ (pf_fn = "addToPath" /\ pf_args = pf_args') => PATH' = PATH
      ]_vars

\* addToPath has moved an entry PATH already had to the front
C20_Witness ==
    /\ pf_fn = "addToPath" /\ pf_args = <<PyStr(V_a)>>
    /\ PATH = PyStr(V_a \o <<":">> \o V_b \o <<":">> \o V_bin)


====
